---- MODULE Spec2Model ----
(***************************************************************************)
(* kmodui: terminal inspector/editor of kernel module parameters.          *)
(*                                                                         *)
(* Names.  Module names and parameter names are natural numbers; their     *)
(* numeric order stands for the lexicographic order of the strings.        *)
(* Text (a search query, a file's content, a value typed in the edit       *)
(* prompt) is a sequence of one-character strings, so that strip() and     *)
(* len() are computed rather than assumed.                                 *)
(***************************************************************************)
EXTENDS Integers, Sequences, FiniteSets, TLC

VARIABLES
    \* ---- environment (what the operating system holds) ----
    sys_module,     \* /sys/module: [exists, dirs (as iterdir() lists them)]
    pdir,           \* module -> its parameters/ directory: entry name -> entry
    modinfo,        \* outcome of `modinfo -p`: [status, out]
    modprobe_d,     \* /etc/modprobe.d: [exists, files]
    scorer,         \* the similarity metric of thefuzz, as a score pattern
    \* ---- the application (KModUI) ----
    phase,          \* "init" (constructed), "running", "crashed"
    all_modules,    \* KModUI.all_modules
    filtered,       \* KModUI.filtered
    search,         \* value of the #search Input
    current_model,  \* KModUI.current_model (NoModel until the first load)
    plist_index,    \* index of #param_list (0 = None)
    modal,          \* the screens pushed over the main screen: one entry
                    \* per EditModal, the record p its callback holds
    focused,        \* the focused widget of the main screen
    \* ---- observation of the last handler that ran ----
    last

vars == <<sys_module, pdir, modinfo, modprobe_d, scorer, phase, all_modules,
          filtered, search, current_model, plist_index, modal, focused,
          last>>

envVars == <<sys_module, pdir, modinfo, modprobe_d, scorer>>

(***************************************************************************)
(* Bounds of the model                                                     *)
(***************************************************************************)
MaxModules == 2
MaxQueryLen == 2
MaxLines == 2
Extra == 1

(***************************************************************************)
(* Program constants                                                       *)
(***************************************************************************)
Limit == 200
FallbackN == 20
ThresholdLong == 65
ThresholdShort == 50
WriteBits == 146

UNREADABLE == <<"<Unreadable>">>
NO_DESC == "No description available."

(***************************************************************************)
(* Text                                                                    *)
(***************************************************************************)
Whitespace == {" ", "\n"}

RECURSIVE LStrip(_)
LStrip(s) ==
    IF s # <<>> /\ Head(s) \in Whitespace THEN LStrip(Tail(s)) ELSE s

RECURSIVE RStrip(_)
RStrip(s) ==
    IF s # <<>> /\ s[Len(s)] \in Whitespace
    THEN RStrip(SubSeq(s, 1, Len(s) - 1))
    ELSE s

\* str.strip()
Strip(s) == RStrip(LStrip(s))

Range(s) == {s[i] : i \in 1..Len(s)}

Take(s, n) == SubSeq(s, 1, IF Len(s) < n THEN Len(s) ELSE n)

\* a & b on non-negative integers
RECURSIVE BitAnd(_, _)
BitAnd(a, b) ==
    IF a = 0 \/ b = 0 THEN 0
    ELSE (a % 2) * (b % 2) + 2 * BitAnd(a \div 2, b \div 2)

\* sorted(S) for a finite set of naturals
RECURSIVE SortedSeq(_)
SortedSeq(S) ==
    IF S = {} THEN <<>>
    ELSE LET m == CHOOSE x \in S : \A y \in S : x <= y
         IN  <<m>> \o SortedSeq(S \ {m})

(***************************************************************************)
(* Data access                                                             *)
(***************************************************************************)
\* get_loaded_modules()
get_loaded_modules(sm) ==
    IF ~sm.exists THEN <<>> ELSE SortSeq(sm.dirs, LAMBDA a, b : a < b)

\* One line of a .conf file, already split on whitespace:
\*   [text, comment, cmd, mod, args]
\* text is raw.strip(); comment says that it starts with '#'; cmd is the
\* first token ("" when the line is blank), mod the second token (0 when
\* there is none), args the tokens after it, each [eq, k, v]: eq says that
\* the token holds '=', k and v are what split("=", 1) gives.
NParts(line) ==
    (IF line.cmd = "" THEN 0 ELSE 1) + (IF line.mod = 0 THEN 0 ELSE 1)
        + Len(line.args)

\* the inner loop over parts[2:]: the (name, item) pairs a line appends
RECURSIVE ArgEntries(_, _, _)
ArgEntries(args, fname, text) ==
    IF args = <<>> THEN <<>>
    ELSE (IF Head(args).eq
          THEN << [key |-> Head(args).k,
                   item |-> [value |-> Head(args).v, file |-> fname,
                             line |-> text]] >>
          ELSE <<>>)
         \o ArgEntries(Tail(args), fname, text)

LineEntries(line, fname, module_name) ==
    IF line.cmd = "" \/ line.comment THEN <<>>
    ELSE IF NParts(line) >= 3 /\ line.cmd = "options" /\ line.mod = module_name
         THEN ArgEntries(line.args, fname, line.text)
         ELSE <<>>

RECURSIVE LinesEntries(_, _, _)
LinesEntries(lines, fname, module_name) ==
    IF lines = <<>> THEN <<>>
    ELSE LineEntries(Head(lines), fname, module_name)
         \o LinesEntries(Tail(lines), fname, module_name)

\* the body of the try block for one file: read_text() raises for a file
\* that cannot be read, before any line is looked at
FileEntries(f, module_name) ==
    IF ~f.readable THEN <<>> ELSE LinesEntries(f.lines, f.name, module_name)

RECURSIVE FilesEntries_StopAtUnreadable(_, _)
FilesEntries_StopAtUnreadable(files, module_name) ==
    IF files = <<>> \/ ~Head(files).readable THEN <<>>
    ELSE FileEntries(Head(files), module_name)
         \o FilesEntries_StopAtUnreadable(Tail(files), module_name)

\* the loop over MODPROBE_D.glob("*.conf"), in the order glob yields
RECURSIVE FilesEntries(_, _)
FilesEntries(files, module_name) ==
    IF files = <<>> THEN <<>>
    ELSE FileEntries(Head(files), module_name)
         \o FilesEntries(Tail(files), module_name)

ItemsOf_LastOnly(entries, k) ==
    LET idx == {i \in 1..Len(entries) : entries[i].key = k}
    IN  IF idx = {} THEN <<>>
        ELSE <<entries[CHOOSE i \in idx : \A j \in idx : j <= i].item>>

\* configs.setdefault(p_name, []).append(...): the list of one key
RECURSIVE ItemsOf(_, _)
ItemsOf(entries, k) ==
    IF entries = <<>> THEN <<>>
    ELSE (IF Head(entries).key = k THEN <<Head(entries).item>> ELSE <<>>)
         \o ItemsOf(Tail(entries), k)

\* get_etc_configs(module_name): a dict, as a function on its keys
get_etc_configs(module_name, md) ==
    IF ~md.exists THEN << >>
    ELSE LET entries == FilesEntries(md.files, module_name)
             keys == {entries[i].key : i \in 1..Len(entries)}
         IN  [k \in keys |-> ItemsOf(entries, k)]

\* the last line of `out` that sets `name` (a dict keeps the last write)
LastDesc(out, name) ==
    LET idx == {i \in 1..Len(out) : out[i].colon /\ out[i].name = name}
        i == CHOOSE j \in idx : \A k \in idx : k <= j
    IN  out[i].desc

\* get_modinfo_details(module_name): the tool's outcome for a module is
\* mi[module_name]; a module the tool does not know exits non-zero.
get_modinfo_details(module_name, mi) ==
    IF module_name \notin DOMAIN mi THEN << >>
    ELSE LET r == mi[module_name]
         IN  IF r.status # "ok" THEN << >>
             ELSE LET names == {r.out[i].name :
                                  i \in {j \in 1..Len(r.out) : r.out[j].colon}}
                  IN  [n \in names |-> LastDesc(r.out, n)]

\* One pass of the loop of read_sysfs_params over the sorted entry names.
\* statFails: the entries whose stat() raises at this call.
RECURSIVE ReadEntries_SkipsUnreadable(_, _, _, _)
ReadEntries_SkipsUnreadable(names, module_name, dir, statFails) ==
    IF names = <<>> THEN [raised |-> FALSE, ret |-> <<>>]
    ELSE LET n == Head(names)
             e == dir[n]
             rest == ReadEntries_SkipsUnreadable(Tail(names), module_name,
                                                 dir, statFails)
         IN  IF e.kind # "file" THEN rest
             ELSE IF n \in statFails THEN [raised |-> TRUE, ret |-> <<>>]
             ELSE IF rest.raised \/ ~e.readable THEN rest
             ELSE [raised |-> FALSE,
                   ret |-> << [name |-> n,
                               current |-> Strip(e.content),
                               writable |-> BitAnd(e.mode, WriteBits) # 0,
                               path |-> <<module_name, n>>] >> \o rest.ret]

RECURSIVE ReadEntries(_, _, _, _)
ReadEntries(names, module_name, dir, statFails) ==
    IF names = <<>> THEN [raised |-> FALSE, ret |-> <<>>]
    ELSE LET n == Head(names)
             e == dir[n]
             rest == ReadEntries(Tail(names), module_name, dir, statFails)
         IN  IF e.kind # "file" THEN rest
             ELSE IF n \in statFails THEN [raised |-> TRUE, ret |-> <<>>]
             ELSE IF rest.raised THEN rest
             ELSE [raised |-> FALSE,
                   ret |-> << [name |-> n,
                               current |-> IF e.readable THEN Strip(e.content)
                                           ELSE UNREADABLE,
                               writable |-> BitAnd(e.mode, WriteBits) # 0,
                               path |-> <<module_name, n>>] >> \o rest.ret]

\* read_sysfs_params(module_name)
read_sysfs_params(module_name, pd, statFails) ==
    IF module_name \notin DOMAIN pd THEN [raised |-> FALSE, ret |-> <<>>]
    ELSE ReadEntries(SortedSeq(DOMAIN pd[module_name]), module_name,
                     pd[module_name], statFails)

\* dict.get(key, default)
DictGet(d, key, default) == IF key \in DOMAIN d THEN d[key] ELSE default

get_module_model_UnionNames(module_name, pd, mi, md, statFails) ==
    LET descs == get_modinfo_details(module_name, mi)
        etc == get_etc_configs(module_name, md)
        params == read_sysfs_params(module_name, pd, statFails)
        live == {params.ret[i].name : i \in 1..Len(params.ret)}
        extra == SortedSeq((DOMAIN descs \cup DOMAIN etc) \ live)
        record(n, cur, w) ==
            [name |-> n, current |-> cur, writable |-> w,
             path |-> <<module_name, n>>,
             desc |-> DictGet(descs, n, NO_DESC),
             persistent |-> DictGet(etc, n, <<>>)]
    IN  IF params.raised THEN [raised |-> TRUE, ret |-> <<>>]
        ELSE [raised |-> FALSE,
              ret |-> [module |-> module_name,
                       params |->
                           [i \in 1..Len(params.ret) |->
                               record(params.ret[i].name,
                                      params.ret[i].current,
                                      params.ret[i].writable)]
                           \o [i \in 1..Len(extra) |->
                                 record(extra[i], UNREADABLE, FALSE)]]]

\* get_module_model(module_name)
get_module_model(module_name, pd, mi, md, statFails) ==
    LET descs == get_modinfo_details(module_name, mi)
        etc == get_etc_configs(module_name, md)
        params == read_sysfs_params(module_name, pd, statFails)
    IN  IF params.raised THEN [raised |-> TRUE, ret |-> <<>>]
        ELSE [raised |-> FALSE,
              ret |-> [module |-> module_name,
                       params |-> [i \in 1..Len(params.ret) |->
                           [name |-> params.ret[i].name,
                            current |-> params.ret[i].current,
                            writable |-> params.ret[i].writable,
                            path |-> params.ret[i].path,
                            desc |-> DictGet(descs, params.ret[i].name, NO_DESC),
                            persistent |-> DictGet(etc, params.ret[i].name, <<>>)]]]]

(***************************************************************************)
(* Fuzzy filter (KModUI.on_input_changed)                                  *)
(***************************************************************************)
\* The similarity metric of thefuzz (WRatio), a deterministic function of
\* the query and the name with values in 0..100: sc is a pattern of scores
\* that the names run through, shifted by the query.
Score(q, name, sc) == sc[((name + Len(q)) % Len(sc)) + 1]

Max(S) == CHOOSE x \in S : \A y \in S : y <= x

\* sorted by descending score, equal scores in their original order
RECURSIVE ByScoreDesc(_, _)
ByScoreDesc(scored, levels) ==
    IF levels = {} THEN <<>>
    ELSE LET mx == Max(levels)
         IN  SelectSeq(scored, LAMBDA r : r.score = mx)
             \o ByScoreDesc(scored, levels \ {mx})

Extract_NoLimit(q, choices, limit, sc) ==
    LET scored == [i \in 1..Len(choices) |->
                     [name |-> choices[i], score |-> Score(q, choices[i], sc)]]
    IN  ByScoreDesc(scored, {scored[i].score : i \in 1..Len(scored)})

\* process.extract(q, choices, limit=limit): (name, score) pairs
Extract(q, choices, limit, sc) ==
    LET scored == [i \in 1..Len(choices) |->
                     [name |-> choices[i], score |-> Score(q, choices[i], sc)]]
    IN  Take(ByScoreDesc(scored, {scored[i].score : i \in 1..Len(scored)}),
             limit)

Names(results) == [i \in 1..Len(results) |-> results[i].name]

Threshold_Always65(q) == ThresholdLong

\* threshold = 65 if len(q) >= 2 else 50
Threshold(q) == IF Len(q) >= 2 THEN ThresholdLong ELSE ThresholdShort

\* ranked = [name for name, score in results if score >= threshold]
Ranked(results, threshold) ==
    Names(SelectSeq(results, LAMBDA r : r.score >= threshold))

Fallback_All(results) == Names(results)

\* ranked = [name for name, _ in results[:20]]
Fallback(results) == Names(Take(results, FallbackN))

FilterNames_EmptyOnly(value, modules, sc) ==
    LET q == Strip(value)
    IN  IF value = <<>> THEN modules
        ELSE LET results == Extract(q, modules, Limit, sc)
                 ranked == Ranked(results, Threshold(q))
             IN  IF ranked = <<>> THEN Fallback(results) ELSE ranked

\* the value on_input_changed assigns to self.filtered for the Input's value
FilterNames(value, modules, sc) ==
    LET q == Strip(value)
    IN  IF q = <<>> THEN modules
        ELSE LET results == Extract(q, modules, Limit, sc)
                 ranked == Ranked(results, Threshold(q))
             IN  IF ranked = <<>> THEN Fallback(results) ELSE ranked

(***************************************************************************)
(* The application                                                         *)
(***************************************************************************)
\* self.notify(STRINGS[msg].format(name=, value=, error=), severity=)
Note(severity, msg, name, value, error) ==
    [severity |-> severity, msg |-> msg, name |-> name, value |-> value,
     error |-> error]

\* What the last handler did: the notifications it emitted, the number of
\* write_text calls and whether the write went through, the number of
\* get_module_model calls and whether one raised, the value a Save carried
\* and the path it wrote to.
Did(ev, notes, writes, wrote, builds, raised, submitted, target) ==
    [ev |-> ev, notes |-> notes, writes |-> writes, wrote |-> wrote,
     builds |-> builds, raised |-> raised, submitted |-> submitted,
     target |-> target]

Quiet(ev) == Did(ev, <<>>, 0, FALSE, 0, FALSE, <<>>, <<>>)

\* the sets of parameter entries whose stat() may raise during one call
ParamNames == {1, 2}
StatFailSets == {{}} \cup {{n} : n \in ParamNames}

\* KModUI._load_details(module_name), with the file system as it is in fs:
\* get_module_model raises before self.current_model is assigned.
LoadDetails(module_name, fs, statFails) ==
    get_module_model(module_name, fs, modinfo, modprobe_d, statFails)

RenderList_NoLoad(names, ev) ==
    /\ UNCHANGED <<current_model, plist_index>>
    /\ phase' = "running"
    /\ last' = Quiet(ev)

\* KModUI._render_list(names) at the end of handler ev: an exception of
\* _load_details leaves the handler and ends the application.
RenderList(names, ev) ==
    IF names = <<>>
    THEN /\ UNCHANGED <<current_model, plist_index>>
         /\ phase' = "running"
         /\ last' = Quiet(ev)
    ELSE \E sf \in StatFailSets :
           LET r == LoadDetails(names[1], pdir, sf)
           IN  IF r.raised
               THEN /\ UNCHANGED <<current_model, plist_index>>
                    /\ phase' = "crashed"
                    /\ last' = Did(ev, <<>>, 0, FALSE, 1, TRUE, <<>>, <<>>)
               ELSE /\ current_model' = <<r.ret>>
                    /\ plist_index' = 0
                    /\ phase' = "running"
                    /\ last' = Did(ev, <<>>, 0, FALSE, 1, FALSE, <<>>, <<>>)

\* class EditModal(ModalScreen): while a modal screen is on the stack the
\* widgets and the key bindings of the main screen receive no input
MainScreenActive_PlainScreen == TRUE

MainScreenActive == modal = <<>>

\* KModUI.on_mount; the first focusable widget of compose(), the #search
\* Input, receives the focus
Mount ==
    /\ phase = "init"
    /\ focused' = "search"
    /\ all_modules' = get_loaded_modules(sys_module)
    /\ filtered' = all_modules'
    /\ RenderList(filtered', "mount")
    /\ UNCHANGED <<envVars, search, modal>>

\* KModUI.on_input_changed for the #search Input holding `value`
OnInputChanged(value, ev) ==
    /\ search' = value
    /\ filtered' = FilterNames(value, all_modules, scorer)
    /\ RenderList(filtered', ev)
    /\ UNCHANGED <<envVars, all_modules, modal>>

Chars == {"a", " "}

\* the user types a character into #search
TypeChar ==
    /\ phase = "running" /\ MainScreenActive
    /\ focused = "search" /\ UNCHANGED focused
    /\ Len(search) < MaxQueryLen
    /\ \E c \in Chars : OnInputChanged(Append(search, c), "input")

\* the user deletes the last character of #search
Backspace ==
    /\ phase = "running" /\ MainScreenActive
    /\ focused = "search" /\ UNCHANGED focused
    /\ search # <<>>
    /\ OnInputChanged(SubSeq(search, 1, Len(search) - 1), "input")

\* the user clicks into #search
ClickSearch ==
    /\ phase = "running" /\ MainScreenActive
    /\ focused # "search"
    /\ focused' = "search"
    /\ last' = Quiet("focus")
    /\ UNCHANGED <<envVars, phase, all_modules, filtered, search,
                   current_model, plist_index, modal>>

SwitchList_Reloads ==
    /\ phase = "running" /\ MainScreenActive
    /\ focused' = IF focused = "left" THEN "param_list" ELSE "left"
    /\ IF current_model = <<>>
       THEN /\ last' = Quiet("switch_list")
            /\ UNCHANGED <<current_model, plist_index>>
       ELSE /\ current_model' =
                  <<LoadDetails(current_model[1].module, pdir, {}).ret>>
            /\ plist_index' = 0
            /\ last' = Did("switch_list", <<>>, 0, FALSE, 1, FALSE, <<>>,
                           <<>>)
    /\ UNCHANGED <<envVars, phase, all_modules, filtered, search, modal>>

\* KModUI.action_switch_list
SwitchList ==
    /\ phase = "running" /\ MainScreenActive
    /\ focused' = IF focused = "left" THEN "param_list" ELSE "left"
    /\ last' = Quiet("switch_list")
    /\ UNCHANGED <<envVars, phase, all_modules, filtered, search,
                   current_model, plist_index, modal>>

\* KModUI.action_clear_search: the Input posts Changed only when its value
\* changes
ClearSearch ==
    /\ phase = "running" /\ MainScreenActive
    /\ focused' = "search"
    /\ IF search = <<>>
       THEN /\ last' = Quiet("clear_search")
            /\ UNCHANGED <<envVars, phase, all_modules, filtered, search,
                           current_model, plist_index, modal>>
       ELSE OnInputChanged(<<>>, "clear_search")

\* KModUI.on_list_view_selected for a row of #left
SelectModule ==
    /\ phase = "running" /\ MainScreenActive
    /\ focused' = "left"
    /\ \E i \in 1..Len(filtered), sf \in StatFailSets :
         LET r == LoadDetails(filtered[i], pdir, sf)
         IN  IF r.raised
             THEN /\ UNCHANGED <<current_model, plist_index>>
                  /\ phase' = "crashed"
                  /\ last' = Did("select_module", <<>>, 0, FALSE, 1, TRUE,
                                 <<>>, <<>>)
             ELSE /\ current_model' = <<r.ret>>
                  /\ plist_index' = 0
                  /\ phase' = "running"
                  /\ last' = Did("select_module", <<>>, 0, FALSE, 1, FALSE,
                                 <<>>, <<>>)
    /\ UNCHANGED <<envVars, all_modules, filtered, search, modal>>

\* the rows of #param_list: one per record of the current model
Rows == IF current_model = <<>> THEN <<>> ELSE current_model[1].params

\* the user moves the cursor of #param_list to row i
HighlightParam ==
    /\ phase = "running" /\ MainScreenActive
    /\ focused' = "param_list"
    /\ \E i \in 1..Len(Rows) :
         /\ i # plist_index
         /\ plist_index' = i
    /\ last' = Quiet("highlight")
    /\ UNCHANGED <<envVars, phase, all_modules, filtered, search,
                   current_model, modal>>

EditParameter_NoWritableCheck(index, ev) ==
    /\ plist_index' = index
    /\ IF index = 0
       THEN /\ last' = Did(ev, <<Note("warning", "warn_select_param", 0, <<>>,
                                      "")>>,
                           0, FALSE, 0, FALSE, <<>>, <<>>)
            /\ UNCHANGED modal
       ELSE /\ modal' = Append(modal, Rows[index])
            /\ last' = Did(ev, <<>>, 0, FALSE, 0, FALSE, <<>>,
                           Rows[index].path)
    /\ UNCHANGED <<envVars, phase, all_modules, filtered, search,
                   current_model>>

EditParameter_DefaultsToFirstRow(index, ev) ==
    LET i == IF index = 0 /\ Rows # <<>> THEN 1 ELSE index
    IN  /\ plist_index' = index
        /\ IF i = 0
           THEN /\ last' = Did(ev, <<Note("warning", "warn_select_param", 0,
                                          <<>>, "")>>,
                               0, FALSE, 0, FALSE, <<>>, <<>>)
                /\ UNCHANGED modal
           ELSE IF ~Rows[i].writable
                THEN /\ last' = Did(ev, <<Note("warning", "warn_not_writable",
                                               Rows[i].name, <<>>, "")>>,
                                    0, FALSE, 0, FALSE, <<>>, Rows[i].path)
                     /\ UNCHANGED modal
                ELSE /\ modal' = Append(modal, Rows[i])
                     /\ last' = Did(ev, <<>>, 0, FALSE, 0, FALSE, <<>>,
                                    Rows[i].path)
        /\ UNCHANGED <<envVars, phase, all_modules, filtered, search,
                       current_model>>

\* KModUI.action_edit_parameter with plist.index = index (0 = None)
EditParameter(index, ev) ==
    /\ plist_index' = index
    /\ IF index = 0
       THEN /\ last' = Did(ev, <<Note("warning", "warn_select_param", 0, <<>>,
                                      "")>>,
                           0, FALSE, 0, FALSE, <<>>, <<>>)
            /\ UNCHANGED modal
       ELSE LET p == Rows[index]
            IN  IF ~p.writable
                THEN /\ last' = Did(ev, <<Note("warning", "warn_not_writable",
                                               p.name, <<>>, "")>>,
                                    0, FALSE, 0, FALSE, <<>>, p.path)
                     /\ UNCHANGED modal
                ELSE /\ modal' = Append(modal, p)
                     /\ last' = Did(ev, <<>>, 0, FALSE, 0, FALSE, <<>>, p.path)
    /\ UNCHANGED <<envVars, phase, all_modules, filtered, search,
                   current_model>>

\* the 'e' key binding; a focused Input takes the key as text
EditKey ==
    /\ phase = "running" /\ MainScreenActive
    /\ focused # "search" /\ UNCHANGED focused
    /\ EditParameter(plist_index, "edit_key")

\* KModUI.on_list_view_selected for a row of #param_list (Enter on the
\* highlighted row, or a click, which moves the cursor to the row first)
SelectParamRow ==
    /\ phase = "running" /\ MainScreenActive
    /\ focused' = "param_list"
    /\ \E i \in 1..Len(Rows) : EditParameter(i, "select_row")

\* what the user may type into the edit prompt; what the kernel may hold
\* after a write; why a write may fail
SubmitVals == {<<>>, <<"1">>, <<"y">>}
KernelContents == {<<"0", "\n">>, <<"1", "\n">>}
WriteErrors == {"EACCES", "EINVAL"}

\* what the parameter file may hold after write_text(new_value) went
\* through: writing the empty string truncates and writes nothing, so the
\* kernel is not asked to store anything; otherwise the kernel stores its
\* own reading of the value
Stored(fs, path, new_value) ==
    IF new_value = <<>> THEN {fs[path[1]][path[2]].content}
    ELSE KernelContents

\* Path(path).write_text(...) went through: the kernel holds k
Written(fs, path, k) ==
    [fs EXCEPT ![path[1]][path[2]].content = k]

\* the except branch of check_edit: the write raised `cause`
WriteFailed_Rebuild(p, new_value, cause, ev) ==
    /\ last' = Did(ev, <<Note("error", "err_write", 0, <<>>, cause)>>,
                   1, FALSE, 1, FALSE, new_value, p.path)
    /\ current_model' = <<LoadDetails(current_model[1].module, pdir, {}).ret>>
    /\ plist_index' = 0
    /\ UNCHANGED pdir

WriteFailed(p, new_value, cause, ev) ==
    /\ last' = Did(ev, <<Note("error", "err_write", 0, <<>>, cause)>>,
                   1, FALSE, 0, FALSE, new_value, p.path)
    /\ UNCHANGED <<pdir, current_model, plist_index>>

WriteDone_ReloadsFirst(p, new_value, k, statFails, ev) ==
    LET ok == Note("information", "ok_updated", p.name, new_value, "")
        r == LoadDetails(filtered[1], pdir', statFails)
    IN  /\ pdir' = Written(pdir, p.path, k)
        /\ IF r.raised
           THEN /\ last' = Did(ev, <<ok, Note("error", "err_write", 0, <<>>,
                                              "stat")>>,
                               1, TRUE, 1, TRUE, new_value, p.path)
                /\ UNCHANGED <<current_model, plist_index>>
           ELSE /\ last' = Did(ev, <<ok>>, 1, TRUE, 1, FALSE, new_value,
                               p.path)
                /\ current_model' = <<r.ret>>
                /\ plist_index' = 0

\* the try block of check_edit after write_text went through and left k in
\* the file: the confirmation, then _load_details of the current module,
\* whose exception the except branch reports
WriteDone(p, new_value, k, statFails, ev) ==
    LET ok == Note("information", "ok_updated", p.name, new_value, "")
        r == LoadDetails(current_model[1].module, pdir', statFails)
    IN  /\ pdir' = Written(pdir, p.path, k)
        /\ IF r.raised
           THEN /\ last' = Did(ev, <<ok, Note("error", "err_write", 0, <<>>,
                                              "stat")>>,
                               1, TRUE, 1, TRUE, new_value, p.path)
                /\ UNCHANGED <<current_model, plist_index>>
           ELSE /\ last' = Did(ev, <<ok>>, 1, TRUE, 1, FALSE, new_value,
                               p.path)
                /\ current_model' = <<r.ret>>
                /\ plist_index' = 0

\* the callback check_edit(new_value) of the prompt opened for p; result is
\* <<>> for None and <<v>> for the string v
CheckEdit(p, result, ev) ==
    IF result = <<>>
    THEN /\ last' = Did(ev, <<>>, 0, FALSE, 0, FALSE, <<>>, p.path)
         /\ UNCHANGED <<pdir, current_model, plist_index>>
    ELSE \/ \E cause \in WriteErrors : WriteFailed(p, result[1], cause, ev)
         \/ \E k \in Stored(pdir, p.path, result[1]), sf \in StatFailSets :
              WriteDone(p, result[1], k, sf, ev)

\* the EditModal on top of the screen stack, and the stack without it
TopModal == modal[Len(modal)]
Dismissed == SubSeq(modal, 1, Len(modal) - 1)

\* EditModal.on_button_pressed for the Save button: dismiss(new_val)
ModalSave ==
    /\ phase = "running" /\ modal # <<>>
    /\ \E new_val \in SubmitVals : CheckEdit(TopModal, <<new_val>>, "save")
    /\ modal' = Dismissed
    /\ UNCHANGED <<sys_module, modinfo, modprobe_d, scorer, phase,
                   all_modules, filtered, search, focused>>

ModalCancel_DismissValue ==
    /\ phase = "running" /\ modal # <<>>
    /\ \E new_val \in SubmitVals : CheckEdit(TopModal, <<new_val>>, "cancel")
    /\ modal' = Dismissed
    /\ UNCHANGED <<sys_module, modinfo, modprobe_d, scorer, phase,
                   all_modules, filtered, search, focused>>

\* EditModal.on_button_pressed for the Cancel button: dismiss(None)
ModalCancel ==
    /\ phase = "running" /\ modal # <<>>
    /\ CheckEdit(TopModal, <<>>, "cancel")
    /\ modal' = Dismissed
    /\ UNCHANGED <<sys_module, modinfo, modprobe_d, scorer, phase,
                   all_modules, filtered, search, focused>>

(***************************************************************************)
(* Environments                                                            *)
(***************************************************************************)
FileEntry(mode, readable, content) ==
    [kind |-> "file", mode |-> mode, readable |-> readable,
     content |-> content]

DirEntry == [kind |-> "dir", mode |-> 493, readable |-> FALSE, content |-> <<>>]

\* 0o644, 0o444, 0o464, 0o446
Modes == {420, 292, 308, 294}

\* /sys/module with n loaded modules, listed last name first
Registries(sizes) ==
    {[exists |-> FALSE, dirs |-> <<>>]}
        \cup {[exists |-> TRUE, dirs |-> [i \in 1..n |-> n + 1 - i]] :
                n \in sizes}

\* `modinfo -p` for module 1: a description of parameter 1, a line without
\* ':', a description of a parameter 3 that is not live, and parameter 1 again
ModinfoOut ==
    << [colon |-> TRUE, name |-> 1, desc |-> "d1"],
       [colon |-> FALSE, name |-> 0, desc |-> ""],
       [colon |-> TRUE, name |-> 3, desc |-> "d3"],
       [colon |-> TRUE, name |-> 1, desc |-> "d1 again"] >>

Modinfos(statuses) ==
    {(1 :> [status |-> st, out |-> ModinfoOut]) : st \in statuses}

ConfLine(text, comment, cmd, mod, args) ==
    [text |-> text, comment |-> comment, cmd |-> cmd, mod |-> mod,
     args |-> args]

KV(k, v) == [eq |-> TRUE, k |-> k, v |-> v]
Word == [eq |-> FALSE, k |-> 0, v |-> ""]

ConfA(readable) ==
    [name |-> "a.conf", readable |-> readable,
     lines |-> << ConfLine("options 1 1=5 3=7 x", FALSE, "options", 1,
                           <<KV(1, "5"), KV(3, "7"), Word>>),
                  ConfLine("# options 1 2=1", TRUE, "#", 0, <<>>),
                  ConfLine("", FALSE, "", 0, <<>>),
                  ConfLine("options 2 1=9", FALSE, "options", 2,
                           <<KV(1, "9")>>),
                  ConfLine("options 1", FALSE, "options", 1, <<>>) >>]

ConfB(readable) ==
    [name |-> "b.conf", readable |-> readable,
     lines |-> << ConfLine("options 1 1=6", FALSE, "options", 1,
                           <<KV(1, "6")>>) >>]

Modprobes(readables) ==
    {[exists |-> FALSE, files |-> <<>>], [exists |-> TRUE, files |-> <<>>]}
        \cup {[exists |-> TRUE, files |-> <<ConfA(ra), ConfB(rb)>>] :
                ra \in readables, rb \in readables}

ScoreVals == {0, 49, 50, 64, 65, 100}
Scorers == [1..2 -> ScoreVals]

AppInit ==
    /\ phase = "init"
    /\ all_modules = <<>>
    /\ filtered = <<>>
    /\ search = <<>>
    /\ current_model = <<>>
    /\ plist_index = 0
    /\ modal = <<>>
    /\ focused = "none"
    /\ last = Quiet("none")

(***************************************************************************)
(* Spec: the edit workflow on a small registry                             *)
(***************************************************************************)
\* the two entries of /sys/module/1/parameters: a writable and a read-only
\* parameter; an unreadable read-only one beside one only its group may
\* write; an unreadable writable one beside a second writable one
SpecEntries ==
    { <<FileEntry(420, TRUE, <<"0", "\n">>), FileEntry(292, TRUE, <<"1", "\n">>)>>,
      <<FileEntry(292, FALSE, <<"0", "\n">>), FileEntry(308, TRUE, <<" ", "1", "\n">>)>>,
      <<FileEntry(420, FALSE, <<"0", "\n">>), FileEntry(308, TRUE, <<"1", "\n">>)>> }

Init ==
    /\ sys_module \in Registries(0..MaxModules)
    /\ pdir \in {(1 :> ((1 :> e1) @@ (2 :> e2))) : <<e1, e2>> \in SpecEntries}
    /\ modinfo \in Modinfos({"ok"})
    /\ modprobe_d \in {[exists |-> TRUE, files |-> <<ConfA(TRUE)>>]}
    /\ scorer \in {<<65, 49>>, <<50, 100>>}
    /\ AppInit

Next ==
    \/ Mount
    \/ TypeChar
    \/ Backspace
    \/ ClearSearch
    \/ ClickSearch
    \/ SwitchList
    \/ SelectModule
    \/ HighlightParam
    \/ EditKey
    \/ SelectParamRow
    \/ ModalSave
    \/ ModalCancel

Spec == Init /\ [][Next]_vars

(***************************************************************************)
(* FilterSpec: the filter on registries around the limits 20 and 200       *)
(***************************************************************************)
FilterSizes ==
    (0..MaxModules)
        \cup {FallbackN, FallbackN + Extra, Limit, Limit + Extra}

FilterInit ==
    /\ sys_module \in Registries(FilterSizes)
    /\ pdir = << >>
    /\ modinfo = << >>
    /\ modprobe_d = [exists |-> FALSE, files |-> <<>>]
    /\ scorer \in Scorers
    /\ AppInit

FilterNext ==
    \/ Mount
    \/ TypeChar
    \/ Backspace
    \/ ClearSearch

FilterSpec == FilterInit /\ [][FilterNext]_vars

(***************************************************************************)
(* BuildSpec: the model builder on every combination of source failures    *)
(***************************************************************************)
BuildEntries ==
    {DirEntry} \cup {FileEntry(m, r, <<"0", "\n">>) :
                       m \in Modes, r \in BOOLEAN}

BuildInit ==
    /\ sys_module \in Registries({MaxModules})
    /\ pdir \in {<< >>, (1 :> << >>)}
                  \cup {(1 :> d) : d \in [ParamNames -> BuildEntries]}
    /\ modinfo \in {<< >>} \cup Modinfos({"ok", "nonzero", "missing"})
    /\ modprobe_d \in Modprobes(BOOLEAN)
    /\ scorer = <<100, 0>>
    /\ AppInit

BuildNext ==
    \/ Mount
    \/ SelectModule

BuildSpec == BuildInit /\ [][BuildNext]_vars

(***************************************************************************)
(* ConfigSpec: the config reader on files made of every kind of line       *)
(***************************************************************************)
\* the lines a config file may hold: two key=value tokens and a bare word
\* for module 1; the same key twice on one line; a line for another module;
\* a comment; a blank line; a two-token line; another command
ConfLines ==
    { ConfLine("options 1 1=5 2=7 x", FALSE, "options", 1,
               <<KV(1, "5"), KV(2, "7"), Word>>),
      ConfLine("options 1 1=6 1=8", FALSE, "options", 1,
               <<KV(1, "6"), KV(1, "8")>>),
      ConfLine("options 2 1=9", FALSE, "options", 2, <<KV(1, "9")>>),
      ConfLine("#options 1 1=4", TRUE, "#options", 1, <<KV(1, "4")>>),
      ConfLine("", FALSE, "", 0, <<>>),
      ConfLine("options 1", FALSE, "options", 1, <<>>),
      ConfLine("install 1 1=3", FALSE, "install", 1, <<KV(1, "3")>>) }

ConfTexts == UNION {[1..n -> ConfLines] : n \in 0..MaxLines}

ConfigFiles ==
    {<<[name |-> "a.conf", readable |-> ra, lines |-> la],
       [name |-> "b.conf", readable |-> rb, lines |-> lb]>> :
        ra \in BOOLEAN, la \in ConfTexts, rb \in BOOLEAN,
        lb \in {<<ConfLine("options 1 2=7 1=5", FALSE, "options", 1,
                           <<KV(2, "7"), KV(1, "5")>>)>>}}

ConfigInit ==
    /\ sys_module \in Registries({MaxModules})
    /\ pdir = (1 :> [n \in ParamNames |-> FileEntry(420, TRUE, <<"0", "\n">>)])
    /\ modinfo \in Modinfos({"ok"})
    /\ modprobe_d \in {[exists |-> FALSE, files |-> <<>>]}
                        \cup {[exists |-> TRUE, files |-> fs] :
                                fs \in ConfigFiles}
    /\ scorer = <<100, 0>>
    /\ AppInit

ConfigNext ==
    \/ Mount
    \/ SelectModule

ConfigSpec == ConfigInit /\ [][ConfigNext]_vars

(***************************************************************************)
(* Properties of the edit workflow (Spec)                                  *)
(***************************************************************************)
EditEvents == {"edit_key", "select_row"}

\* the record an edit attempt was about, in the state after the attempt
EditTarget == Rows[plist_index]

RejectedReadOnly ==
    /\ last.ev \in EditEvents
    /\ plist_index # 0
    /\ ~EditTarget.writable

\* C1: an edit attempt ('e' key or selection of the row) on a record whose
\* writable flag is false performs no write and opens no edit prompt; it
\* emits the not-writable warning naming the parameter, and leaves the
\* current model, the parameter files and the controller as they were.
C1_ReadOnlyEditRejected ==
    [][ RejectedReadOnly' =>
          /\ modal' = <<>>
          /\ last'.writes = 0
          /\ last'.notes = <<Note("warning", "warn_not_writable",
                                  EditTarget'.name, <<>>, "")>>
          /\ current_model' = current_model
          /\ pdir' = pdir
          /\ phase' = phase
          /\ filtered' = filtered ]_vars

C1_Witness ==
    /\ RejectedReadOnly
    /\ Len(last.notes) = 1
    /\ last.notes[1].severity = "warning"

\* what the live source reports for the parameter at path: its content,
\* trimmed, or the sentinel when it cannot be read
Reported(fs, path) ==
    LET e == fs[path[1]][path[2]]
    IN  IF e.readable THEN Strip(e.content) ELSE UNREADABLE

ShownIsReported ==
    \A i \in 1..Len(Rows) :
        Rows[i].path = last.target => Rows[i].current = Reported(pdir, last.target)

\* C2: after a Save whose write succeeds the current model has been rebuilt
\* from the live source when the prompt is gone: one build ran to its end,
\* and the value shown for the edited parameter is the value the live source
\* reports after the write.
C2_SavedValueShown ==
    (last.ev = "save" /\ last.wrote) =>
        /\ modal = <<>>
        /\ last.builds = 1
        /\ ~last.raised
        /\ ShownIsReported

\* C3: after a Save whose write fails, one error notification carrying the
\* cause is emitted, exactly one write was attempted, no rebuild ran, the
\* current model and the parameter files are what they were, and the
\* controller is back in Browsing.
C3_FailedWriteLeavesModel ==
    [][ (last'.ev = "save" /\ ~last'.wrote) =>
          /\ Len(last'.notes) = 1
          /\ last'.notes[1].severity = "error"
          /\ last'.notes[1].msg = "err_write"
          /\ last'.notes[1].error \in WriteErrors
          /\ last'.writes = 1
          /\ last'.builds = 0
          /\ current_model' = current_model
          /\ pdir' = pdir
          /\ modal' = <<>>
          /\ phase' = "running" ]_vars

C3_Witness ==
    /\ last.ev = "save"
    /\ ~last.wrote
    /\ last.writes = 1
    /\ last.notes # <<>>
    /\ last.notes[1].error = "EINVAL"
    /\ modal = <<>>

\* C4: Cancel in the edit prompt performs no write, emits no notification,
\* performs no rebuild and leaves the current model and the parameter files
\* unchanged; the controller is back in Browsing.
C4_CancelChangesNothing ==
    [][ last'.ev = "cancel" =>
          /\ last'.writes = 0
          /\ last'.notes = <<>>
          /\ last'.builds = 0
          /\ current_model' = current_model
          /\ pdir' = pdir
          /\ modal # <<>>
          /\ modal' = <<>>
          /\ phase' = "running" ]_vars

C4_Witness ==
    /\ last.ev = "cancel"
    /\ modal = <<>>
    /\ current_model # <<>>

(***************************************************************************)
(* Properties of the model builder (BuildSpec)                             *)
(***************************************************************************)
Shown == current_model[1]

\* the names of the regular files of a module's parameters directory
LiveNames(m) ==
    IF m \in DOMAIN pdir
    THEN {n \in DOMAIN pdir[m] : pdir[m][n].kind = "file"}
    ELSE {}

\* the documentation tool ran and printed a "name:description" line for n
Documented(m, n) ==
    /\ m \in DOMAIN modinfo
    /\ modinfo[m].status = "ok"
    /\ \E i \in 1..Len(modinfo[m].out) :
         modinfo[m].out[i].colon /\ modinfo[m].out[i].name = n

\* a readable config file holds an `options m ... n=value ...` line
Configured(m, n) ==
    /\ modprobe_d.exists
    /\ \E f \in 1..Len(modprobe_d.files) :
         /\ modprobe_d.files[f].readable
         /\ \E l \in 1..Len(modprobe_d.files[f].lines) :
              LET line == modprobe_d.files[f].lines[l]
              IN  /\ ~line.comment
                  /\ line.cmd = "options"
                  /\ line.mod = m
                  /\ \E a \in 1..Len(line.args) :
                       line.args[a].eq /\ line.args[a].k = n

AllSourcesAbsent(m) ==
    /\ m \notin DOMAIN pdir
    /\ m \notin DOMAIN modinfo \/ modinfo[m].status # "ok"
    /\ ~modprobe_d.exists \/ modprobe_d.files = <<>>

\* C5: get_module_model never raises, whatever the three sources do (no
\* parameter directory, an entry whose metadata or value cannot be read,
\* the documentation tool missing or failing, config files missing or
\* unreadable), and with all three sources absent the model it returns has
\* an empty parameter list.
C5_BuildNeverRaises ==
    /\ last.builds > 0 => ~last.raised
    /\ (current_model # <<>> /\ AllSourcesAbsent(Shown.module)) =>
           Shown.params = <<>>

\* C6: the parameter names of a built model are the parameter names of the
\* live source, each exactly once: a name only the documentation or only
\* the persisted config knows is not in the model; a live parameter the
\* documentation does not describe has the default description, and one the
\* config does not mention has an empty override list.
C6_LiveNamesOnly ==
    current_model # <<>> =>
        LET ps == Shown.params
        IN  /\ {ps[i].name : i \in 1..Len(ps)} = LiveNames(Shown.module)
            /\ Len(ps) = Cardinality(LiveNames(Shown.module))
            /\ \A i \in 1..Len(ps) :
                 /\ (ps[i].desc = NO_DESC)
                        <=> ~Documented(Shown.module, ps[i].name)
                 /\ (ps[i].persistent = <<>>)
                        <=> ~Configured(Shown.module, ps[i].name)

C6_Witness ==
    /\ current_model # <<>>
    /\ Len(Shown.params) = 2
    /\ Documented(Shown.module, 3)
    /\ Configured(Shown.module, 3)
    /\ Shown.params[1].desc # NO_DESC
    /\ Shown.params[1].persistent # <<>>
    /\ Shown.params[2].desc = NO_DESC
    /\ Shown.params[2].persistent = <<>>

(***************************************************************************)
(* Properties of the filter (FilterSpec)                                   *)
(***************************************************************************)
Mounted == phase # "init"

\* the query is empty or holds only whitespace
IsBlank(s) == \A i \in 1..Len(s) : s[i] \in {" ", "\n"}

\* the score of a module name against the query in #search
ScoreOf(m) == Score(Strip(search), m, scorer)

Descending ==
    \A i \in 1..(Len(filtered) - 1) :
        ScoreOf(filtered[i]) >= ScoreOf(filtered[i + 1])

Distinct == Cardinality(Range(filtered)) = Len(filtered)

FromModules == Range(filtered) \subseteq Range(all_modules)

\* Some name reaches thr, and filtered is the names at or above thr in
\* descending-score order, of the (at most Limit) highest-scoring names.
ExactlyAtOrAbove(thr) ==
    (\E m \in Range(all_modules) : ScoreOf(m) >= thr) =>
        /\ \A i \in 1..Len(filtered) : ScoreOf(filtered[i]) >= thr
        /\ Descending
        /\ Distinct
        /\ FromModules
        /\ \A m \in Range(all_modules) \ Range(filtered) :
             ScoreOf(m) >= thr =>
                 /\ Len(filtered) = 200
                 /\ ScoreOf(m) <= ScoreOf(filtered[200])

\* C7: for a query that is empty or only whitespace, the filtered list is
\* the full module list, same elements in the same order.
C7_BlankQueryIsIdentity ==
    (Mounted /\ IsBlank(search)) => filtered = all_modules

C7_Witness ==
    /\ Mounted
    /\ search # <<>>
    /\ IsBlank(search)
    /\ last.ev = "input"
    /\ Len(all_modules) > 20
    /\ filtered = all_modules

\* C8 as stated: the threshold is 65 when the query (the Input's value) has
\* length >= 2 and 50 otherwise; when some candidate reaches it the result
\* is exactly the candidates at or above it, in descending-score order.
C8_ThresholdByQueryLength ==
    (Mounted /\ ~IsBlank(search)) =>
        ExactlyAtOrAbove(IF Len(search) >= 2 THEN 65 ELSE 50)

\* C8 amended: the threshold is 65 when the query with its leading and
\* trailing whitespace removed has length >= 2 and 50 otherwise; when some
\* candidate reaches it the result is exactly the candidates at or above
\* it, in descending-score order.
C8_ThresholdByTrimmedLength ==
    (Mounted /\ ~IsBlank(search)) =>
        ExactlyAtOrAbove(IF Len(Strip(search)) >= 2 THEN 65 ELSE 50)

C8_Witness ==
    /\ Mounted
    /\ search = <<"a", " ">>
    /\ \E i \in 1..Len(filtered) : ScoreOf(filtered[i]) = 64
    /\ \E i \in 1..Len(filtered) : ScoreOf(filtered[i]) = 65

AppliedThreshold == IF Len(Strip(search)) >= 2 THEN 65 ELSE 50

NoneReaches == \A m \in Range(all_modules) : ScoreOf(m) < AppliedThreshold

Min(a, b) == IF a < b THEN a ELSE b

\* C9: for a non-blank query and a non-empty module list, when no candidate
\* reaches the threshold the result is exactly the 20 highest-scoring names
\* (all of them when there are fewer than 20) in descending-score order; so
\* the result is never empty.
C9_FallbackTop20 ==
    (Mounted /\ ~IsBlank(search) /\ all_modules # <<>>) =>
        /\ filtered # <<>>
        /\ NoneReaches =>
             /\ Len(filtered) = Min(20, Len(all_modules))
             /\ Descending
             /\ Distinct
             /\ FromModules
             /\ \A m \in Range(all_modules) \ Range(filtered) :
                  ScoreOf(m) <= ScoreOf(filtered[Len(filtered)])

C9_Witness ==
    /\ Mounted
    /\ ~IsBlank(search)
    /\ NoneReaches
    /\ Len(all_modules) > 20
    /\ Len(filtered) = 20
    /\ ScoreOf(filtered[1]) > ScoreOf(filtered[20])

\* C10: for a non-blank query every name of the filtered list is a member
\* of the full module list, no name occurs twice, and the list has at most
\* 200 entries.
C10_SubsetDistinctBounded ==
    (Mounted /\ ~IsBlank(search)) =>
        /\ FromModules
        /\ Distinct
        /\ Len(filtered) <= 200

C10_Witness ==
    /\ Mounted
    /\ ~IsBlank(search)
    /\ Len(all_modules) > 200
    /\ Len(filtered) = 200

(***************************************************************************)
(* Properties of the config reader (ConfigSpec)                            *)
(***************************************************************************)
ConfFiles == IF modprobe_d.exists THEN modprobe_d.files ELSE <<>>

\* line l of file f is an `options m ...` line
OptionsLine(f, l, m) ==
    LET line == ConfFiles[f].lines[l]
    IN  ~line.comment /\ line.cmd = "options" /\ line.mod = m

\* the places <<file, line, token>> of the key=value tokens that set n on
\* the `options m` lines of the readable files
Directives(m, n) ==
    {pos \in UNION {UNION {{<<f, l, t>> :
                                t \in 1..Len(ConfFiles[f].lines[l].args)} :
                              l \in 1..Len(ConfFiles[f].lines)} :
                       f \in 1..Len(ConfFiles)} :
        /\ ConfFiles[pos[1]].readable
        /\ OptionsLine(pos[1], pos[2], m)
        /\ ConfFiles[pos[1]].lines[pos[2]].args[pos[3]].eq
        /\ ConfFiles[pos[1]].lines[pos[2]].args[pos[3]].k = n}

\* file enumeration order, then line order, then token order
Before(a, b) ==
    \/ a[1] < b[1]
    \/ a[1] = b[1] /\ a[2] < b[2]
    \/ a[1] = b[1] /\ a[2] = b[2] /\ a[3] < b[3]

ItemAt(pos) ==
    [value |-> ConfFiles[pos[1]].lines[pos[2]].args[pos[3]].v,
     file |-> ConfFiles[pos[1]].name,
     line |-> ConfFiles[pos[1]].lines[pos[2]].text]

\* C11: the override list of each parameter of the model of module m has
\* one entry for every key=value token naming the parameter on every
\* `options m ...` line of every readable config file, none dropped or
\* merged, in file enumeration order, then line order, then token order;
\* lines for another module, lines of fewer than three tokens, comments,
\* blank lines and tokens without '=' contribute nothing.
C11_OneEntryPerDirective ==
    current_model # <<>> =>
        \A i \in 1..Len(Shown.params) :
          LET rec == Shown.params[i]
              S == Directives(Shown.module, rec.name)
          IN  /\ Len(rec.persistent) = Cardinality(S)
              /\ \A pos \in S :
                   rec.persistent[Cardinality({q \in S : Before(q, pos)}) + 1]
                       = ItemAt(pos)

\* parameter 1 of module 1 is set twice on one line of a.conf, again on a
\* second line, and once more in b.conf after another parameter
C11_Witness ==
    /\ current_model # <<>>
    /\ Shown.module = 1
    /\ \E i \in 1..Len(Shown.params) :
         /\ Shown.params[i].name = 1
         /\ [j \in 1..Len(Shown.params[i].persistent) |->
                Shown.params[i].persistent[j].value] = <<"6", "8", "5", "5">>
         /\ [j \in 1..Len(Shown.params[i].persistent) |->
                Shown.params[i].persistent[j].file]
                = <<"a.conf", "a.conf", "a.conf", "b.conf">>

(***************************************************************************)
(* Properties of the edit session (Spec)                                   *)
(***************************************************************************)
\* C12: the edit key pressed while no row of the parameter list is
\* selected emits the select-a-parameter warning and nothing else: no edit
\* prompt is opened, no file is written, no model is built, and the current
\* model, the lists, the query, the focus and the files stay as they were.
C12_NoSelectionWarns ==
    [][ (plist_index = 0 /\ last'.ev = "edit_key") =>
          /\ last'.notes = <<Note("warning", "warn_select_param", 0, <<>>,
                                  "")>>
          /\ last'.writes = 0
          /\ last'.builds = 0
          /\ modal' = <<>>
          /\ UNCHANGED <<envVars, phase, all_modules, filtered, search,
                         current_model, plist_index, focused>> ]_vars

\* the edit key was pressed with no row selected although the list shows
\* a writable parameter
C12_Witness ==
    /\ last.ev = "edit_key"
    /\ plist_index = 0
    /\ last.notes # <<>>
    /\ \E i \in 1..Len(Rows) : Rows[i].writable

\* the events of the main screen that start an edit, select a module or
\* change the query
MainScreenEvents ==
    {"edit_key", "select_row", "select_module", "input", "clear_search"}

\* C13: at most one edit prompt is open in any reachable state, and while
\* one is open no edit key, row selection, module selection or query
\* change is handled: no second prompt is opened, and the current model is
\* replaced only by the Save that closes the prompt.
C13_OneEditSession ==
    [][ /\ Len(modal') <= 1
        /\ modal # <<>> =>
             /\ last'.ev \notin MainScreenEvents
             /\ current_model' # current_model =>
                    (modal' = <<>> /\ last'.ev = "save") ]_vars

\* a prompt is open while the module list offers another module, the
\* parameter list another row and the query is not empty
C13_Witness ==
    /\ Len(modal) = 1
    /\ Len(filtered) > 1
    /\ Len(Rows) > 1
    /\ search # <<>>

\* C14: the current model is replaced only by the module-selection path or
\* by the success path of a Save; every other event (a search-query change,
\* Cancel, a failed write, a rejected edit attempt, a focus switch, clear
\* search) leaves it unchanged.  The load at mount counts as a selection.
C14_ReplacedOnlyBySelectionOrSave ==
    [][ current_model' # current_model =>
          \/ last'.ev \in {"mount", "select_module"}
          \/ last'.ev = "save" /\ last'.wrote ]_vars

\* the events that leave the current model alone: Cancel, a failed write,
\* an edit attempt, a focus change, a cursor move, clear search of an empty
\* query, a query change that yields an empty list
LeavesModelAlone ==
    \/ last'.ev \in {"cancel", "edit_key", "select_row", "switch_list",
                     "focus", "highlight"}
    \/ last'.ev = "save" /\ ~last'.wrote
    \/ last'.ev = "clear_search" /\ search = <<>>
    \/ last'.ev \in {"input", "clear_search"} /\ filtered' = <<>>

\* C14 (amended): the current model is replaced only by a load of
\* _load_details that went through: for the selected module row, for the
\* first name of the list after mount or after a search-query change (a
\* clear search that changes the query included), or for the current
\* module after a Save whose write succeeded.  Every other event leaves
\* the current model unchanged and builds no model.
C14_ReplacedOnlyByLoad ==
    [][ /\ current_model' # current_model =>
             /\ last'.builds = 1 /\ ~last'.raised
             /\ \/ last'.ev \in {"mount", "select_module", "input",
                                  "clear_search"}
                \/ last'.ev = "save" /\ last'.wrote
        /\ LeavesModelAlone =>
             current_model' = current_model /\ last'.builds = 0 ]_vars

\* a search-query change replaced the model by the model of a module that
\* is not the first of the registry
C14_Witness ==
    /\ last.ev = "input"
    /\ last.builds = 1 /\ ~last.raised
    /\ current_model # <<>>
    /\ current_model[1].module # all_modules[1]
    /\ current_model[1].module = filtered[1]

(***************************************************************************)
(* Properties of the source readers under failure (BuildSpec, ConfigSpec)  *)
(***************************************************************************)
\* the owner, the group or the others may write
AnyWriteBit(mode) ==
    \/ (mode \div 128) % 2 = 1
    \/ (mode \div 16) % 2 = 1
    \/ (mode \div 2) % 2 = 1

\* the records of the model of m had the value of entry n been readable
HadItBeenReadable(m, n) ==
    get_module_model(m, [pdir EXCEPT ![m][n].readable = TRUE], modinfo,
                     modprobe_d, {}).ret.params

\* C15: a parameter file whose value cannot be read still has its record,
\* with the unreadable sentinel as current value and a writable flag that
\* is true exactly when the owner, the group or the others may write; all
\* the records of the model are what they would be had the read succeeded,
\* but for that current value.
C15_ReadFailureIsolated ==
    current_model # <<>> =>
        LET m == Shown.module
            ps == Shown.params
        IN  /\ \A n \in LiveNames(m) : \E i \in 1..Len(ps) : ps[i].name = n
            /\ \A i \in 1..Len(ps) :
                 LET e == pdir[m][ps[i].name]
                     alt == HadItBeenReadable(m, ps[i].name)
                 IN  ~e.readable =>
                       /\ ps[i].current = UNREADABLE
                       /\ ps[i].writable = AnyWriteBit(e.mode)
                       /\ Len(alt) = Len(ps)
                       /\ \A j \in 1..Len(ps) : j # i => alt[j] = ps[j]
                       /\ alt[i] = [ps[i] EXCEPT !.current = Strip(e.content)]

\* an unreadable parameter only its group may write, beside a readable one
C15_Witness ==
    /\ current_model # <<>>
    /\ Len(Shown.params) = 2
    /\ Shown.params[1].current = UNREADABLE
    /\ Shown.params[1].writable
    /\ pdir[Shown.module][Shown.params[1].name].mode = 308
    /\ Shown.params[2].current = <<"0">>
    /\ ~Shown.params[2].writable

\* the config directory without the files that cannot be read
ReadableOnly ==
    [modprobe_d EXCEPT !.files = SelectSeq(modprobe_d.files,
                                           LAMBDA f : f.readable)]

UnreadableNames ==
    {ConfFiles[f].name : f \in {g \in 1..Len(ConfFiles) :
                                  ~ConfFiles[g].readable}}

\* C16: a config file that cannot be read contributes no override entry,
\* and the entries of the readable files are all there: the records of the
\* model are those built from the directory without the unreadable files.
\* The failure is not reported: the build emits no notification.
C16_UnreadableFileSkipped ==
    current_model # <<>> =>
        LET ps == Shown.params
        IN  /\ \A i \in 1..Len(ps) : \A j \in 1..Len(ps[i].persistent) :
                 ps[i].persistent[j].file \notin UnreadableNames
            /\ ps = get_module_model(Shown.module, pdir, modinfo,
                                     ReadableOnly, {}).ret.params
            /\ last.notes = <<>>

\* a.conf cannot be read and starts with a directive for module 1; the
\* model of module 1 shows the directive of b.conf
C16_Witness ==
    /\ current_model # <<>>
    /\ Shown.module = 1
    /\ Len(ConfFiles) = 2
    /\ ~ConfFiles[1].readable
    /\ ConfFiles[1].lines # <<>>
    /\ OptionsLine(1, 1, 1)
    /\ ConfFiles[1].lines[1].args # <<>>
    /\ ConfFiles[2].readable
    /\ \E i \in 1..Len(Shown.params) :
         /\ Shown.params[i].persistent # <<>>
         /\ \A j \in 1..Len(Shown.params[i].persistent) :
              Shown.params[i].persistent[j].file = ConfFiles[2].name

(***************************************************************************)
(* Properties of the Save path (Spec)                                      *)
(***************************************************************************)
\* C17: the write-error notification is emitted only when the write itself
\* failed: a Save whose write went through emits the confirmation and
\* nothing else, and the model is rebuilt, so that no failure of a later
\* step is reported as a write error or leaves the pre-write model shown.
C17_WriteErrorOnlyForFailedWrite ==
    /\ (\E i \in 1..Len(last.notes) : last.notes[i].msg = "err_write")
           => (last.writes = 1 /\ ~last.wrote)
    /\ (last.ev = "save" /\ last.wrote) =>
           /\ last.notes = <<Note("information", "ok_updated",
                                  last.target[2], last.submitted, "")>>
           /\ last.builds = 1
           /\ ~last.raised

\* C18: whenever an edit prompt is open its target record is a record of
\* the current model, and after a Save whose write went through the
\* current model is the model of the module that owns the path written
\* (the module current when the Save was handled is the module that was
\* current when the prompt was opened).
C18_PromptTargetsCurrentModel ==
    /\ \A k \in 1..Len(modal) :
         /\ current_model # <<>>
         /\ modal[k].path[1] = Shown.module
         /\ \E i \in 1..Len(Rows) : Rows[i] = modal[k]
    /\ (last.ev = "save" /\ last.wrote) =>
         /\ current_model # <<>>
         /\ last.builds = 1
         /\ Shown.module = last.target[1]

\* a Save went through and the model was rebuilt for the module of the
\* written path, which is not the first module of the filtered list
C18_Witness ==
    /\ last.ev = "save"
    /\ last.wrote
    /\ ~last.raised
    /\ current_model # <<>>
    /\ Shown.module = last.target[1]
    /\ filtered[1] # Shown.module

(***************************************************************************)
(* Properties of the displayed model and the filtered list (Spec)          *)
(***************************************************************************)
\* C19: while the application runs and displays a model, the module of the
\* model is a name of the filtered list; right after mount or a
\* search-query change with a non-empty list, the model displayed is the
\* model built for the first name of the list.
C19_ShownModuleIsListed ==
    (phase = "running" /\ current_model # <<>>) =>
        /\ Shown.module \in Range(filtered)
        /\ (last.ev \in {"mount", "input"}
               \/ (last.ev = "clear_search" /\ last.builds = 1)) =>
             Shown = LoadDetails(filtered[1], pdir, {}).ret

\* a query change left one name of two, not the first of the registry, and
\* the model displayed is the model of that name
C19_Witness ==
    /\ phase = "running"
    /\ last.ev = "input"
    /\ Len(all_modules) = 2
    /\ filtered = <<all_modules[2]>>
    /\ current_model # <<>>
    /\ Shown.module = all_modules[2]

====
